---- MODULE Spec2Model ----
(***************************************************************************)
(* wagtailtinymce: the rich-text conversion of the TinyMCE widget.         *)
(*                                                                         *)
(*   rich_text.py    DbTinymceWhitelister.clean_tag_node (editor HTML to   *)
(*                   stored HTML), EditorTinymceHTMLConverter (rule list,  *)
(*                   cached whitelister and rewriter), TinyMCERichTextArea *)
(*                   (widget options, render_js_init)                      *)
(*   wagtail_hooks.py  register_tinymce_features (the rule registry)       *)
(*                                                                         *)
(* HTML strings are sequences of tokens (opening tag, closing tag,         *)
(* self-closing tag, text); the parsed document is a tree of nodes.        *)
(* The calls the repository makes into BeautifulSoup (decompose,           *)
(* unwrap, replace_with, iteration over tag.contents) and into wagtail     *)
(* (Whitelister.clean_tag_node through super(), DbWhitelister.__init__,    *)
(* LinkRewriter, EmbedRewriter) are modelled at the line that makes them.  *)
(***************************************************************************)
EXTENDS Integers, Sequences, FiniteSets, TLC

\* The largest number of nodes in the element tree of one HTML input.
MaxNodes == 3

\* The largest number of calls one converter serves.
MaxCalls == 3

(***************************************************************************)
(* Attribute dictionaries: sets of <<name, value>> with unique names.      *)
(***************************************************************************)
Has(attrs, k) == \E p \in attrs : p[1] = k

Get(attrs, k) == (CHOOSE p \in attrs : p[1] = k)[2]

Put(attrs, k, v) == {p \in attrs : p[1] # k} \cup {<<k, v>>}

Update(attrs, new) == {p \in attrs : ~Has(new, p[1])} \cup new

(***************************************************************************)
(* Nodes of the parsed document (bs4 Tag, NavigableString).  Comments are  *)
(* not modelled.                                                           *)
(***************************************************************************)
Tag(name, attrs, contents, empty) ==
    [kind |-> "tag", name |-> name, attrs |-> attrs, contents |-> contents,
     can_be_empty_element |-> empty, text |-> <<>>]

Text(chars) ==
    [kind |-> "text", name |-> "", attrs |-> {}, contents |-> <<>>,
     can_be_empty_element |-> FALSE, text |-> chars]

\* Tags the HTML parser builds as void elements (no contents, "<x/>").
VoidTags == {"img", "embed", "br", "hr"}

(***************************************************************************)
(* Tokens of an HTML string, and doc.decode(): a tag that can be an empty  *)
(* element and has no contents is written self-closing; neighbouring text  *)
(* runs into one string.                                                   *)
(***************************************************************************)
Tok(t, name, attrs, text) == [t |-> t, name |-> name, attrs |-> attrs, text |-> text]

Join(a, b) ==
    IF a # <<>> /\ b # <<>> /\ a[Len(a)].t = "text" /\ b[1].t = "text"
    THEN SubSeq(a, 1, Len(a) - 1)
         \o <<Tok("text", "", {}, a[Len(a)].text \o b[1].text)>>
         \o SubSeq(b, 2, Len(b))
    ELSE a \o b

RECURSIVE decode(_)
decode(forest) ==
    IF forest = <<>> THEN <<>>
    ELSE LET n == forest[1]
             head == IF n.kind = "text" THEN <<Tok("text", "", {}, n.text)>>
                     ELSE IF n.can_be_empty_element /\ n.contents = <<>>
                     THEN <<Tok("void", n.name, n.attrs, <<>>)>>
                     ELSE Join(Join(<<Tok("open", n.name, n.attrs, <<>>)>>,
                                    decode(n.contents)),
                               <<Tok("close", n.name, {}, <<>>)>>)
         IN Join(head, decode(Tail(forest)))

(***************************************************************************)
(* BeautifulSoup(html): the forest under the [document] root.  The html,   *)
(* head and body wrappers the parser adds are left out: no element rule    *)
(* names them, so the walk unwraps them and the fragment is what remains.  *)
(* The tokens are well nested (they are decode's).                         *)
(***************************************************************************)
RECURSIVE ParseFrom(_, _)
ParseFrom(toks, i) ==
    IF i > Len(toks) \/ toks[i].t = "close"
    THEN [forest |-> <<>>, next |-> i]
    ELSE IF toks[i].t = "open"
    THEN LET inner == ParseFrom(toks, i + 1)
             rest == ParseFrom(toks, inner.next + 1)
         IN [forest |-> <<Tag(toks[i].name, toks[i].attrs, inner.forest,
                              toks[i].name \in VoidTags)>> \o rest.forest,
             next |-> rest.next]
    ELSE LET rest == ParseFrom(toks, i + 1)
             node == IF toks[i].t = "text" THEN Text(toks[i].text)
                     ELSE Tag(toks[i].name, toks[i].attrs, <<>>, toks[i].name \in VoidTags)
         IN [forest |-> <<node>> \o rest.forest, next |-> rest.next]

BeautifulSoup(html) == Tag("[document]", {}, ParseFrom(html, 1).forest, FALSE)

(***************************************************************************)
(* wagtail_hooks.py: the rules registered per feature for the converter    *)
(* 'tinymceeditorhtml'.  A rule is a WhitelistRule (element, attribute     *)
(* handler), a LinkTypeRule or an EmbedTypeRule (type, handler).           *)
(***************************************************************************)
WhitelistRule(element, handler) == [kind |-> "whitelist", name |-> element, handler |-> handler]

LinkTypeRule(link_type, handler) == [kind |-> "link", name |-> link_type, handler |-> handler]

EmbedTypeRule(embed_type, handler) == [kind |-> "embed", name |-> embed_type, handler |-> handler]

ALLOWED_ATTR ==
    {"border", "cellpadding", "cellspacing", "style", "width", "colspan", "margin-left",
     "margin-right", "height", "border-color", "text-align", "background-color",
     "vertical-align", "scope", "font-family", "rowspan", "valign", "class"}

Headings == {"h1", "h2", "h3", "h4", "h5", "h6"}

RegisteredFeatures ==
    {"link", "bold", "br", "div", "italic", "hr", "ol", "ul", "p", "subscripts",
     "blockquote", "code", "table", "image", "document-link"} \cup Headings

register_tinymce_features(feature) ==
    CASE feature = "link" ->
           <<WhitelistRule("a", "attribute_rule_href"), LinkTypeRule("page", "PageLinkHandler")>>
      [] feature = "bold" ->
           <<WhitelistRule("b", "allow_without_attributes"),
             WhitelistRule("strong", "allow_without_attributes")>>
      [] feature = "br" -> <<WhitelistRule("br", "allow_without_attributes")>>
      [] feature = "div" -> <<WhitelistRule("div", "allow_without_attributes")>>
      [] feature = "italic" ->
           <<WhitelistRule("i", "allow_without_attributes"),
             WhitelistRule("em", "allow_without_attributes")>>
      [] feature \in Headings -> <<WhitelistRule(feature, "allow_without_attributes")>>
      [] feature = "hr" -> <<WhitelistRule("hr", "allow_without_attributes")>>
      [] feature = "ol" ->
           <<WhitelistRule("ol", "allow_without_attributes"),
             WhitelistRule("li", "allow_without_attributes")>>
      [] feature = "ul" ->
           <<WhitelistRule("ul", "allow_without_attributes"),
             WhitelistRule("li", "allow_without_attributes")>>
      [] feature = "p" -> <<WhitelistRule("p", "allow_without_attributes")>>
      [] feature = "subscripts" ->
           <<WhitelistRule("sub", "allow_without_attributes"),
             WhitelistRule("sup", "allow_without_attributes")>>
      [] feature = "blockquote" -> <<WhitelistRule("blockquote", "allow_without_attributes")>>
      [] feature = "code" ->
           <<WhitelistRule("pre", "allow_without_attributes"),
             WhitelistRule("code", "allow_without_attributes")>>
      [] feature = "table" ->
           <<WhitelistRule("table", "default_attribute_rule"),
             WhitelistRule("caption", "default_attribute_rule"),
             WhitelistRule("tbody", "default_attribute_rule"),
             WhitelistRule("th", "default_attribute_rule"),
             WhitelistRule("tr", "default_attribute_rule"),
             WhitelistRule("td", "default_attribute_rule")>>
      [] feature = "image" -> <<EmbedTypeRule("image", "ImageEmbedHandler")>>
      [] feature = "document-link" -> <<LinkTypeRule("document", "DocumentLinkHandler")>>

\* feature_registry.get_converter_rule('tinymceeditorhtml', feature): None for a
\* feature with no rule under this converter.
get_converter_rule(feature) ==
    IF feature \in RegisteredFeatures
    THEN [found |-> TRUE, rule |-> register_tinymce_features(feature)]
    ELSE [found |-> FALSE, rule |-> <<>>]

(***************************************************************************)
(* EditorTinymceHTMLConverter.__init__: converter_rules.                   *)
(***************************************************************************)
RECURSIVE converter_init(_)
converter_init(feats) ==
    IF feats = <<>> THEN <<>>
    ELSE LET r == get_converter_rule(feats[Len(feats)])
             before == converter_init(SubSeq(feats, 1, Len(feats) - 1))
         IN IF r.found THEN before \o r.rule ELSE before

(***************************************************************************)
(* DbTinymceWhitelister(converter_rules): DbWhitelister.__init__ starts    *)
(* element_rules from the rules that are always active and adds each       *)
(* WhitelistRule in order; embed_handlers and link_handlers are the        *)
(* dictionaries of the typed rules.                                        *)
(***************************************************************************)
BASE_WHITELIST_RULES ==
    {<<"[document]", "allow_without_attributes">>, <<"p", "allow_without_attributes">>,
     <<"div", "allow_without_attributes">>, <<"br", "allow_without_attributes">>}

RECURSIVE RuleDict(_, _, _)
RuleDict(rules, kind, start) ==
    IF rules = <<>> THEN start
    ELSE LET r == rules[Len(rules)]
             before == RuleDict(SubSeq(rules, 1, Len(rules) - 1), kind, start)
         IN IF r.kind = kind THEN Put(before, r.name, r.handler) ELSE before

DbTinymceWhitelister(rules) ==
    [converter_rules |-> rules,
     element_rules |-> RuleDict(rules, "whitelist", BASE_WHITELIST_RULES),
     embed_handlers |-> RuleDict(rules, "embed", {}),
     link_handlers |-> RuleDict(rules, "link", {})]

(***************************************************************************)
(* The attribute handlers of the element rules (wagtail.core.whitelist).   *)
(***************************************************************************)
AllowedUrls == {"http://x", "/p/"}

check_url(url) == url \in AllowedUrls

ApplyRule(handler, attrs) ==
    CASE handler = "allow_without_attributes" -> {}
      [] handler = "attribute_rule_href" -> {p \in attrs : p[1] = "href" /\ check_url(p[2])}
      [] handler = "default_attribute_rule" -> {p \in attrs : p[1] \in ALLOWED_ATTR}

(***************************************************************************)
(* The handlers' get_db_attributes(tag): the stored attributes read from   *)
(* the element's data- attributes.                                         *)
(***************************************************************************)
get_db_attributes(handler, attrs) ==
    CASE handler = "ImageEmbedHandler" ->
           {<<"id", Get(attrs, "data-id")>>, <<"format", Get(attrs, "data-format")>>,
            <<"alt", Get(attrs, "data-alt")>>}
      [] OTHER -> {<<"id", Get(attrs, "data-id")>>}

(***************************************************************************)
(* The walk.  clean_node(wl, node) is the sequence of nodes that stands in *)
(* the parent where node stood once node is cleaned: empty after           *)
(* decompose(), the node's own contents after unwrap(), one node           *)
(* otherwise.                                                              *)
(***************************************************************************)
RECURSIVE clean_node(_, _)

\* Whitelister.clean_tag_node: for child in list(tag.contents) walks a copy of
\* the list, so every child is cleaned once and replaced where it stood.
RECURSIVE clean_contents_copy(_, _)
clean_contents_copy(wl, contents) ==
    IF contents = <<>> THEN <<>>
    ELSE clean_node(wl, contents[1]) \o clean_contents_copy(wl, Tail(contents))

\* The typed-link branch: for child in tag.contents walks the list itself.  The
\* list iterator holds a position i and stops when i passes the end of the list
\* as it then is; cleaning the child at i replaces it in that list.
RECURSIVE clean_contents_live(_, _, _)
clean_contents_live(wl, contents, i) ==
    IF i > Len(contents) THEN contents
    ELSE clean_contents_live(wl,
                             SubSeq(contents, 1, i - 1)
                             \o clean_node(wl, contents[i])
                             \o SubSeq(contents, i + 1, Len(contents)),
                             i + 1)

\* super(DbWhitelister, self).clean_tag_node(doc, tag): clean the contents, then
\* unwrap a tag no element rule names, or apply the rule to the tag's attributes.
Whitelister_clean_tag_node(wl, tag) ==
    LET contents == clean_contents_copy(wl, tag.contents)
    IN IF ~Has(wl.element_rules, tag.name)
       THEN contents
       ELSE <<[tag EXCEPT !.contents = contents,
                          !.attrs = ApplyRule(Get(wl.element_rules, tag.name), tag.attrs)]>>

\* if 'data-embedtype' in tag.attrs
EmbedBranchKeepsUnknown(wl, tag) ==
    LET embed_type == Get(tag.attrs, "data-embedtype")
    IN IF ~Has(wl.embed_handlers, embed_type)
       THEN <<tag>>
       ELSE LET embed_attrs == Put(get_db_attributes(Get(wl.embed_handlers, embed_type),
                                                     tag.attrs),
                                   "embedtype", embed_type)
            IN <<Tag("embed", embed_attrs, <<>>, TRUE)>>

EmbedBranch(wl, tag) ==
    LET embed_type == Get(tag.attrs, "data-embedtype")
    IN IF ~Has(wl.embed_handlers, embed_type)
       THEN <<>>
       ELSE LET embed_attrs == Put(get_db_attributes(Get(wl.embed_handlers, embed_type),
                                                     tag.attrs),
                                   "embedtype", embed_type)
            IN <<Tag("embed", embed_attrs, <<>>, TRUE)>>

LinkBranchKeepsAttrs(wl, tag) ==
    LET contents == clean_contents_live(wl, tag.contents, 1)
        link_type == Get(tag.attrs, "data-linktype")
    IN IF ~Has(wl.link_handlers, link_type)
       THEN contents
       ELSE LET link_attrs == Put(get_db_attributes(Get(wl.link_handlers, link_type),
                                                    tag.attrs),
                                  "linktype", link_type)
            IN <<[tag EXCEPT !.contents = contents,
                             !.attrs = Update(tag.attrs, link_attrs)]>>

\* elif tag.name == 'a' and 'data-linktype' in tag.attrs
LinkBranch(wl, tag) ==
    LET contents == clean_contents_live(wl, tag.contents, 1)
        link_type == Get(tag.attrs, "data-linktype")
    IN IF ~Has(wl.link_handlers, link_type)
       THEN contents
       ELSE LET link_attrs == Put(get_db_attributes(Get(wl.link_handlers, link_type),
                                                    tag.attrs),
                                  "linktype", link_type)
            IN <<[tag EXCEPT !.contents = contents,
                             !.attrs = Update({}, link_attrs)]>>

\* else: a div is renamed to p, then the generic rule lookup runs
ElseBranch(wl, tag) ==
    Whitelister_clean_tag_node(wl, IF tag.name = "div" THEN [tag EXCEPT !.name = "p"] ELSE tag)

clean_tag_node(wl, tag) ==
    IF Has(tag.attrs, "data-embedtype") THEN EmbedBranch(wl, tag)
    ELSE IF tag.name = "a" /\ Has(tag.attrs, "data-linktype") THEN LinkBranch(wl, tag)
    ELSE ElseBranch(wl, tag)

\* Whitelister.clean_node: a string is left as it is, a tag goes to
\* clean_tag_node.
clean_node(wl, node) ==
    IF node.kind = "text" THEN <<node>> ELSE clean_tag_node(wl, node)

\* self.whitelister.clean(html): parse, walk from the document root, decode.
clean(wl, html) == decode(clean_node(wl, BeautifulSoup(html))[1].contents)

(***************************************************************************)
(* html_rewriter: MultiRuleRewriter([LinkRewriter(link_rules),             *)
(* EmbedRewriter(embed_rules)]) over the stored HTML string.  Each         *)
(* rewriter substitutes the tags its pattern matches ("<a ...>",           *)
(* "<embed .../>") and leaves every other token as it is.                  *)
(***************************************************************************)
\* The handlers' expand_db_attributes(attrs): the editor's tag for a stored one.
expand_db_attributes(handler, attrs) ==
    CASE handler = "PageLinkHandler" ->
           <<Tok("open", "a", {<<"data-linktype", "page">>, <<"data-id", Get(attrs, "id")>>,
                               <<"href", "/p/">>}, <<>>)>>
      [] handler = "DocumentLinkHandler" ->
           <<Tok("open", "a", {<<"data-linktype", "document">>, <<"data-id", Get(attrs, "id")>>,
                               <<"href", "/d/">>}, <<>>)>>
      [] handler = "ImageEmbedHandler" ->
           <<Tok("void", "img", {<<"data-embedtype", "image">>, <<"data-id", Get(attrs, "id")>>,
                                 <<"data-format", Get(attrs, "format")>>,
                                 <<"data-alt", Get(attrs, "alt")>>, <<"src", "/i.png">>}, <<>>)>>

\* LinkRewriter.replace_tag: a link with no linktype is returned as it is (no
\* rule is registered here for the external, email or anchor links its href
\* would make it); an unrecognised linktype gives a bare "<a>".
LinkRewriter_replace_tag(link_rules, tok) ==
    IF ~Has(tok.attrs, "linktype") THEN <<tok>>
    ELSE IF ~Has(link_rules, Get(tok.attrs, "linktype")) THEN <<Tok("open", "a", {}, <<>>)>>
    ELSE expand_db_attributes(Get(link_rules, Get(tok.attrs, "linktype")), tok.attrs)

\* EmbedRewriter.replace_tag: an unrecognised or missing embedtype gives ''.
EmbedRewriter_replace_tag(embed_rules, tok) ==
    IF ~Has(tok.attrs, "embedtype") THEN <<>>
    ELSE IF ~Has(embed_rules, Get(tok.attrs, "embedtype")) THEN <<>>
    ELSE expand_db_attributes(Get(embed_rules, Get(tok.attrs, "embedtype")), tok.attrs)

RECURSIVE Rewrite(_, _)
Rewrite(rewriter, toks) ==
    IF toks = <<>> THEN <<>>
    ELSE LET tok == toks[1]
             head == IF rewriter.cls = "LinkRewriter" /\ tok.t = "open" /\ tok.name = "a"
                     THEN LinkRewriter_replace_tag(rewriter.rules, tok)
                     ELSE IF rewriter.cls = "EmbedRewriter" /\ tok.t = "void"
                             /\ tok.name = "embed"
                     THEN EmbedRewriter_replace_tag(rewriter.rules, tok)
                     ELSE <<tok>>
         IN head \o Rewrite(rewriter, Tail(toks))

\* MultiRuleRewriter.__call__: each rewriter in order over the last one's output.
RECURSIVE MultiRuleRewriter(_, _)
MultiRuleRewriter(rewriters, toks) ==
    IF rewriters = <<>> THEN toks
    ELSE MultiRuleRewriter(Tail(rewriters), Rewrite(rewriters[1], toks))

html_rewriter_links_only(rules) ==
    <<[cls |-> "LinkRewriter", rules |-> RuleDict(rules, "link", {})]>>

\* The body of the html_rewriter property.
html_rewriter_new(rules) ==
    <<[cls |-> "LinkRewriter", rules |-> RuleDict(rules, "link", {})],
      [cls |-> "EmbedRewriter", rules |-> RuleDict(rules, "embed", {})]>>

(***************************************************************************)
(* cached_property: the value is computed on the first access and kept in  *)
(* the instance; a cache is <<>> before and <<value>> after.               *)
(***************************************************************************)
whitelister_uncached(cache, rules) ==
    [cache |-> <<DbTinymceWhitelister(rules)>>, constructed |-> 1]

whitelister_property(cache, rules) ==
    IF cache # <<>> THEN [cache |-> cache, constructed |-> 0]
    ELSE [cache |-> <<DbTinymceWhitelister(rules)>>, constructed |-> 1]

html_rewriter_property(cache, rules) ==
    IF cache # <<>> THEN [cache |-> cache, constructed |-> 0]
    ELSE [cache |-> <<html_rewriter_new(rules)>>, constructed |-> 1]

(***************************************************************************)
(* Inputs.  The element trees of at most MaxNodes nodes over a vocabulary  *)
(* of leaves and of elements that take contents.  As the HTML parser       *)
(* builds them: no a element inside an a element, no two neighbouring      *)
(* text nodes.                                                             *)
(***************************************************************************)
RECURSIVE HasAnchor(_)
HasAnchor(forest) ==
    \E i \in 1..Len(forest) : forest[i].name = "a" \/ HasAnchor(forest[i].contents)

RECURSIVE TreesOfSize(_, _)
RECURSIVE ForestsOfSize(_, _)
ForestsOfSize(V, n) ==
    IF n = 0 THEN {<<>>}
    ELSE UNION {{x \in {<<t>> \o f : t \in TreesOfSize(V, k), f \in ForestsOfSize(V, n - k)} :
                   ~(Len(x) > 1 /\ x[1].kind = "text" /\ x[2].kind = "text")} : k \in 1..n}

TreesOfSize(V, n) ==
    IF n = 1 THEN V.leaves \cup V.containers
    ELSE {x \in {[c EXCEPT !.contents = f] : c \in V.containers, f \in ForestsOfSize(V, n - 1)} :
            x.name = "a" => ~HasAnchor(x.contents)}

Trees(V) == UNION {TreesOfSize(V, n) : n \in 1..MaxNodes}

ImageData == {<<"data-id", "4">>, <<"data-format", "left">>, <<"data-alt", "cat">>}

EditorVocabulary ==
    [leaves |->
       {Text(<<"x">>),
        Tag("img", ImageData \cup {<<"data-embedtype", "image">>, <<"src", "/i.png">>}, <<>>, TRUE),
        Tag("img", {<<"data-embedtype", "bogus">>, <<"src", "/i.png">>}, <<>>, TRUE)},
     containers |->
       {Tag("a", {<<"data-linktype", "page">>, <<"data-id", "7">>, <<"href", "/p/">>}, <<>>, FALSE),
        Tag("a", {<<"data-linktype", "bogus">>, <<"data-id", "7">>}, <<>>, FALSE),
        Tag("a", ImageData \cup {<<"data-embedtype", "image">>, <<"data-linktype", "page">>},
            <<>>, FALSE),
        Tag("div", {}, <<>>, FALSE),
        Tag("font", {<<"color", "red">>}, <<>>, FALSE),
        Tag("b", {<<"onclick", "x">>}, <<>>, FALSE)}]

StoredVocabulary ==
    [leaves |->
       {Text(<<"x">>),
        Tag("embed", {<<"embedtype", "image">>, <<"id", "4">>, <<"format", "left">>,
                      <<"alt", "cat">>}, <<>>, TRUE),
        Tag("embed", {<<"embedtype", "bogus">>, <<"id", "9">>}, <<>>, TRUE)},
     containers |->
       {Tag("a", {<<"linktype", "page">>, <<"id", "7">>}, <<>>, FALSE),
        Tag("a", {<<"linktype", "bogus">>, <<"id", "7">>}, <<>>, FALSE),
        Tag("a", {<<"href", "http://x">>}, <<>>, FALSE),
        Tag("p", {}, <<>>, FALSE),
        Tag("b", {}, <<>>, FALSE)}]

\* The strings the editor posts and the strings the database holds.
EditorHtml == {decode(<<t>>) : t \in Trees(EditorVocabulary)}

StoredHtml == {decode(<<t>>) : t \in Trees(StoredVocabulary)}

\* The feature lists a widget is configured with ('embed' has no rule under
\* this converter).
FeatureChoices ==
    {<<"bold", "embed", "link", "image", "div", "p">>,
     <<"div", "ol", "ul">>,
     <<"document-link", "italic", "image">>}

(***************************************************************************)
(* TinyMCERichTextArea.  A language code is the tuple of its parts         *)
(* (<<"en", "us">> is en-us), a locale likewise (<<"en", "US">> is en_US); *)
(* <<>> is the empty string.  An optional value is <<>> (None, or no such  *)
(* key) or <<value>>.                                                      *)
(***************************************************************************)
Upper(c) == CASE c = "us" -> "US" [] c = "gb" -> "GB" [] c = "br" -> "BR"

\* django.utils.translation.to_locale
to_locale(language) ==
    IF Len(language) = 1 THEN language ELSE <<language[1], Upper(language[2])>>

\* What translation.get_language() returns: None or the active language.
ActiveLanguages == {<<>>, <<<<"en">>>>, <<<<"en", "us">>>>, <<<<"en", "gb">>>>, <<<<"fr">>>>,
                    <<<<"pt", "br">>>>}

\* A 'language' the caller passes, as a keyword or inside options=...
GivenLanguages == {<<>>, <<<<>>>>, <<<<"en", "US">>>>, <<<<"en", "GB">>>>, <<<<"fr">>>>}

getDefaultArgs(active) ==
    [buttons |-> <<<<<<"undo", "redo">>, <<"styleselect">>, <<"bold", "italic">>,
                     <<"bullist", "numlist", "outdent", "indent">>, <<"table">>,
                     <<"link", "unlink">>,
                     <<"wagtaildoclink", "wagtailimage", "wagtailembed">>,
                     <<"pastetext", "fullscreen">>>>>>,
     menus |-> FALSE,
     options |-> [browser_spellcheck |-> TRUE,
                  noneditable_leave_contenteditable |-> TRUE,
                  language |-> to_locale(IF active = <<>> THEN <<"en">> ELSE active[1]),
                  language_load |-> TRUE],
     language |-> <<>>]

\* __init__: self.kwargs = getDefaultArgs(), updated with the keyword arguments
\* and then with the options argument.
widget_init(active, kw_language, opt_language) ==
    LET defaults == getDefaultArgs(active)
        with_kwargs == IF kw_language # <<>> THEN [defaults EXCEPT !.language = kw_language]
                       ELSE defaults
    IN IF opt_language # <<>> THEN [with_kwargs EXCEPT !.language = opt_language]
       ELSE with_kwargs

\* ' '.join / ' | '.join over one row of button groups
RECURSIVE JoinGroups(_)
JoinGroups(groups) ==
    IF groups = <<>> THEN <<>>
    ELSE IF Len(groups) = 1 THEN groups[1]
    ELSE groups[1] \o <<"|">> \o JoinGroups(Tail(groups))

\* kwargs starts as a copy of self.kwargs['options']; 'language' is then set
\* from self.kwargs.get('language'), the top-level key.
render_js_init(kw) ==
    LET language == kw.language
    IN [browser_spellcheck |-> kw.options.browser_spellcheck,
        noneditable_leave_contenteditable |-> kw.options.noneditable_leave_contenteditable,
        language_load |-> kw.options.language_load,
        toolbar |-> [r \in 1..Len(kw.buttons) |-> JoinGroups(kw.buttons[r])],
        menubar |-> FALSE,
        language |-> IF language = <<>> \/ language[1] = <<>> \/ language[1] = <<"en", "US">>
                     THEN <<"en">>
                     ELSE language[1]]

(***************************************************************************)
(* State.                                                                  *)
(***************************************************************************)
VARIABLES
    features,              \* the converter's feature list
    converter_rules,       \* EditorTinymceHTMLConverter.converter_rules
    whitelister,           \* the cached whitelister
    html_rewriter,         \* the cached rewriter
    whitelister_builds,    \* how often DbTinymceWhitelister(...) was constructed
    html_rewriter_builds,  \* how often the MultiRuleRewriter was constructed
    calls,                 \* how many calls the converter has served
    request,               \* the form post or the stored value the widget is to serve
    op,                    \* the last call
    html,                  \* its argument
    result,                \* its return value
    translation,           \* translation.get_language() when the widget was built
    given,                 \* the language the widget was given (keyword, options)
    kwargs,                \* TinyMCERichTextArea.kwargs
    payload                \* the object render_js_init serialises

vars == <<features, converter_rules, whitelister, html_rewriter, whitelister_builds,
          html_rewriter_builds, calls, request, op, html, result, translation, given, kwargs,
          payload>>

widget_vars == <<translation, given, kwargs, payload>>

\* A converter after __init__(features).
ConverterInit(feats) ==
    /\ features = feats
    /\ converter_rules = converter_init(feats)
    /\ whitelister = <<>>
    /\ html_rewriter = <<>>
    /\ whitelister_builds = 0
    /\ html_rewriter_builds = 0
    /\ calls = 0
    /\ op = "__init__"
    /\ html = <<>>
    /\ result = <<>>

\* A widget after __init__(language=kw, options={'language': opt}).
WidgetInit(active, kw, opt) ==
    /\ translation = active
    /\ given = [keyword |-> kw, options |-> opt]
    /\ kwargs = widget_init(active, kw, opt)
    /\ payload = <<>>

NoRequest == [call |-> "none", value |-> <<>>]

\* What a widget is asked to serve: a posted value (None or the editor's HTML)
\* or a stored value to render (None or stored HTML).
Requests ==
    {[call |-> "value_from_datadict", value |-> v] : v \in {<<>>} \cup {<<h>> : h \in EditorHtml}}
    \cup {[call |-> "render", value |-> v] : v \in {<<>>} \cup {<<h>> : h \in StoredHtml}}

(***************************************************************************)
(* The converter's two calls.                                              *)
(***************************************************************************)
to_database_format(h) ==
    LET w == whitelister_property(whitelister, converter_rules)
    IN /\ calls < MaxCalls
       /\ calls' = calls + 1
       /\ whitelister' = w.cache
       /\ whitelister_builds' = whitelister_builds + w.constructed
       /\ result' = <<clean(w.cache[1], h)>>
       /\ op' = "to_database_format"
       /\ html' = h
       /\ UNCHANGED <<features, converter_rules, html_rewriter, html_rewriter_builds>>

from_database_format(h) ==
    LET r == html_rewriter_property(html_rewriter, converter_rules)
    IN /\ calls < MaxCalls
       /\ calls' = calls + 1
       /\ html_rewriter' = r.cache
       /\ html_rewriter_builds' = html_rewriter_builds + r.constructed
       /\ result' = <<MultiRuleRewriter(r.cache[1], h)>>
       /\ op' = "from_database_format"
       /\ html' = h
       /\ UNCHANGED <<features, converter_rules, whitelister, whitelister_builds>>

\* The widget passes None through without calling the converter.
PassNone(call) ==
    /\ result' = <<>>
    /\ op' = call
    /\ html' = <<>>
    /\ UNCHANGED <<features, converter_rules, whitelister, whitelister_builds,
                   html_rewriter, html_rewriter_builds, calls>>

(***************************************************************************)
(* Spec: a widget with one of the feature lists serves one request.        *)
(***************************************************************************)
Init ==
    /\ \E feats \in FeatureChoices : ConverterInit(feats)
    /\ WidgetInit(<<<<"en", "us">>>>, <<>>, <<>>)
    /\ request \in Requests

value_from_datadict ==
    /\ request.call = "value_from_datadict"
    /\ IF request.value = <<>> THEN PassNone("value_from_datadict")
       ELSE to_database_format(request.value[1])
    /\ UNCHANGED request
    /\ UNCHANGED widget_vars

render ==
    /\ request.call = "render"
    /\ IF request.value = <<>> THEN PassNone("render")
       ELSE from_database_format(request.value[1])
    /\ UNCHANGED request
    /\ UNCHANGED widget_vars

Next == value_from_datadict \/ render

Spec == Init /\ [][Next]_vars

(***************************************************************************)
(* SpecCalls: one converter, any sequence of its two calls.                *)
(***************************************************************************)
CallEditorHtml == {decode(<<t>>) : t \in TreesOfSize(EditorVocabulary, 1)}

CallStoredHtml == {decode(<<t>>) : t \in TreesOfSize(StoredVocabulary, 1)}

InitCalls ==
    /\ \E feats \in FeatureChoices : ConverterInit(feats)
    /\ WidgetInit(<<<<"en", "us">>>>, <<>>, <<>>)
    /\ request = NoRequest

ToDatabaseFormat ==
    /\ \E h \in CallEditorHtml : to_database_format(h)
    /\ UNCHANGED request
    /\ UNCHANGED widget_vars

FromDatabaseFormat ==
    /\ \E h \in CallStoredHtml : from_database_format(h)
    /\ UNCHANGED request
    /\ UNCHANGED widget_vars

NextCalls == ToDatabaseFormat \/ FromDatabaseFormat

SpecCalls == InitCalls /\ [][NextCalls]_vars

(***************************************************************************)
(* SpecWidget: every way of building the widget, then render_js_init.      *)
(***************************************************************************)
InitWidget ==
    /\ ConverterInit(<<"bold", "embed", "link", "image", "div", "p">>)
    /\ \E active \in ActiveLanguages, kw \in GivenLanguages, opt \in GivenLanguages :
          WidgetInit(active, kw, opt)
    /\ request = NoRequest

RenderJsInit ==
    /\ payload' = <<render_js_init(kwargs)>>
    /\ UNCHANGED <<translation, given, kwargs, request>>
    /\ UNCHANGED <<features, converter_rules, whitelister, html_rewriter,
                   whitelister_builds, html_rewriter_builds, calls, op, html, result>>

NextWidget == RenderJsInit

SpecWidget == InitWidget /\ [][NextWidget]_vars

(***************************************************************************)
(* Reading a document.                                                     *)
(***************************************************************************)
\* All nodes of a forest, in document order.
RECURSIVE AllNodes(_)
AllNodes(forest) ==
    IF forest = <<>> THEN <<>>
    ELSE <<forest[1]>> \o AllNodes(forest[1].contents) \o AllNodes(Tail(forest))

\* The nodes that are not inside an element carrying data-embedtype (such an
\* element is opaque: it is replaced or discarded with all it holds).
RECURSIVE OutsideEmbeds(_)
OutsideEmbeds(forest) ==
    IF forest = <<>> THEN <<>>
    ELSE <<forest[1]>>
         \o (IF Has(forest[1].attrs, "data-embedtype") THEN <<>>
             ELSE OutsideEmbeds(forest[1].contents))
         \o OutsideEmbeds(Tail(forest))

Range(seq) == {seq[i] : i \in 1..Len(seq)}

RECURSIVE TextOf(_)
TextOf(nodes) ==
    IF nodes = <<>> THEN <<>>
    ELSE (IF nodes[1].kind = "text" THEN nodes[1].text ELSE <<>>) \o TextOf(Tail(nodes))

RECURSIVE IsSubseq(_, _)
IsSubseq(a, b) ==
    IF a = <<>> THEN TRUE
    ELSE IF b = <<>> THEN FALSE
    ELSE IF a[1] = b[1] THEN IsSubseq(Tail(a), Tail(b))
    ELSE IsSubseq(a, Tail(b))

Sanitized == op = "to_database_format"

Expanded == op = "from_database_format"

\* The posted document as parsed, and the returned string as a document.
In == BeautifulSoup(html).contents

Out == BeautifulSoup(result[1]).contents

EmbedMarked(n) == n.kind = "tag" /\ Has(n.attrs, "data-embedtype")

TypedLink(n) ==
    n.kind = "tag" /\ n.name = "a" /\ Has(n.attrs, "data-linktype")
    /\ ~Has(n.attrs, "data-embedtype")

EmbedRegistered(n) == Has(whitelister[1].embed_handlers, Get(n.attrs, "data-embedtype"))

LinkRegistered(n) == Has(whitelister[1].link_handlers, Get(n.attrs, "data-linktype"))

\* The <embed> element the claims describe for an element with a registered marker.
StoredEmbed(n) ==
    LET t == Get(n.attrs, "data-embedtype")
    IN Tag("embed",
           Put(get_db_attributes(Get(whitelister[1].embed_handlers, t), n.attrs), "embedtype", t),
           <<>>, TRUE)

\* The attributes the claims describe for a link with a registered marker.
StoredLinkAttrs(n) ==
    LET t == Get(n.attrs, "data-linktype")
    IN Put(get_db_attributes(Get(whitelister[1].link_handlers, t), n.attrs), "linktype", t)

MapSeq(seq, F(_)) == [i \in 1..Len(seq) |-> F(seq[i])]

(***************************************************************************)
(* C1.  Editor to database: an element whose data-embedtype names no       *)
(* registered embed handler is removed with all it holds; nothing of it    *)
(* is in the sanitized output.                                             *)
(***************************************************************************)
C1_UnregisteredEmbedRemoved ==
    Sanitized =>
        \A n \in Range(AllNodes(Out)) : EmbedMarked(n) => EmbedRegistered(n)

(***************************************************************************)
(* C2.  Editor to database: an <a> whose data-linktype names no registered *)
(* link handler is unwrapped; what stands at its place is its children,    *)
(* each in sanitized form, in their order.                                 *)
(***************************************************************************)
C2_UnregisteredLinkUnwrapped ==
    Sanitized =>
        \A n \in Range(OutsideEmbeds(In)) :
            (TypedLink(n) /\ ~LinkRegistered(n)) =>
                clean_node(whitelister[1], n) = clean_contents_copy(whitelister[1], n.contents)

(***************************************************************************)
(* C3.  Editor to database: every element whose data-embedtype names a     *)
(* registered handler is replaced by one self-closing <embed> with the     *)
(* handler's attributes and embedtype; no marked element and none of its   *)
(* contents are left.                                                      *)
(***************************************************************************)
C3_RegisteredEmbedReplaced ==
    Sanitized =>
        LET IsEmbed(n) == n.kind = "tag" /\ n.name = "embed"
            Marked(n) == EmbedMarked(n) /\ EmbedRegistered(n)
        IN /\ SelectSeq(AllNodes(Out), IsEmbed)
                = MapSeq(SelectSeq(OutsideEmbeds(In), Marked), StoredEmbed)
           /\ \A n \in Range(AllNodes(Out)) : ~(EmbedMarked(n) /\ EmbedRegistered(n))

C5_Idempotent ==
    Sanitized => clean(whitelister[1], result[1]) = result[1]

\* A document of text and of elements an element rule names, other than div,
\* with only the attributes the rule accepts.
Plain(forest) ==
    \A n \in Range(AllNodes(forest)) :
        n.kind = "tag" =>
            /\ n.name # "div"
            /\ Has(whitelister[1].element_rules, n.name)
            /\ ApplyRule(Get(whitelister[1].element_rules, n.name), n.attrs) = n.attrs

\* A document the HTML parser reads back as it was written: a <p> or <div>
\* start tag closes an open <p>, so none stands inside a <p>.
RECURSIVE ReadsBack(_, _)
ReadsBack(forest, in_p) ==
    \A i \in 1..Len(forest) :
        /\ ~(in_p /\ forest[i].name \in {"p", "div"})
        /\ ReadsBack(forest[i].contents, in_p \/ forest[i].name = "p")

(***************************************************************************)
(* C5, amended.  An output that reads back as written is unchanged by a    *)
(* second pass exactly when it is plain: text and whitelisted elements     *)
(* other than div with accepted attributes.  An output holding a stored    *)
(* <embed> or <a linktype> is changed.                                     *)
(***************************************************************************)
C5_IdempotentExactlyOnPlain ==
    (Sanitized /\ ReadsBack(Out, FALSE)) =>
        ((clean(whitelister[1], result[1]) = result[1]) <=> Plain(Out))

C5_Witness ==
    /\ Sanitized
    /\ ReadsBack(Out, FALSE)
    /\ Plain(Out)
    /\ result[1] # html
    /\ \E n \in Range(AllNodes(Out)) : n.kind = "tag" /\ n.contents # <<>>

(***************************************************************************)
(* C6.  As claimed: database to editor, a stored embed or typed link whose *)
(* type has no handler is passed through as it is, and so is every tag     *)
(* that is neither; a registered type is expanded by its handler.          *)
(***************************************************************************)
StoredTypedLink(tok) == tok.t = "open" /\ tok.name = "a" /\ Has(tok.attrs, "linktype")

StoredEmbedTag(tok) == tok.t = "void" /\ tok.name = "embed"

LinkRules == RuleDict(converter_rules, "link", {})

EmbedRules == RuleDict(converter_rules, "embed", {})

RECURSIVE Flatten(_)
Flatten(seqs) == IF seqs = <<>> THEN <<>> ELSE seqs[1] \o Flatten(Tail(seqs))

C7_DivBecomesParagraph ==
    (Sanitized /\ \E i \in 1..Len(features) : features[i] = "div") =>
        LET IsDiv(n) == n.kind = "tag" /\ n.name = "div" /\ n.attrs = {}
            IsBlock(n) == n.kind = "tag" /\ n.name \in {"div", "p"}
            NameOf(n) == n.name
            Paragraph(n) == "p"
        IN /\ MapSeq(SelectSeq(AllNodes(Out), IsBlock), NameOf)
                = MapSeq(SelectSeq(OutsideEmbeds(In), IsDiv), Paragraph)
           /\ \A n \in Range(OutsideEmbeds(In)) :
                 IsDiv(n) =>
                     clean_node(whitelister[1], n)
                       = <<Tag("p", {}, clean_contents_copy(whitelister[1], n.contents), FALSE)>>

(***************************************************************************)
(* C10.  Editor to database: when a typed link is sanitized, every child   *)
(* is sanitized; below the link's place no element is left without an      *)
(* element rule, with an attribute its rule rejects, or with an            *)
(* unprocessed data-embedtype or data-linktype marker.                     *)
(***************************************************************************)
C10_LinkChildrenSanitized ==
    Sanitized =>
        \A n \in Range(OutsideEmbeds(In)) :
            TypedLink(n) =>
                LET r == clean_node(whitelister[1], n)
                    below == IF LinkRegistered(n) THEN r[1].contents ELSE r
                IN \A c \in Range(AllNodes(below)) :
                       c.kind = "tag" =>
                           \/ c.name = "embed" /\ Has(c.attrs, "embedtype")
                           \/ /\ Has(whitelister[1].element_rules, c.name)
                              /\ ApplyRule(Get(whitelister[1].element_rules, c.name), c.attrs)
                                   = c.attrs
                              /\ ~Has(c.attrs, "data-embedtype")
                              /\ ~Has(c.attrs, "data-linktype")

(***************************************************************************)
(* C8.  One converter, any sequence of calls: the whitelister is built at  *)
(* most once, on the first to_database_format, the rewriter at most once,  *)
(* on the first from_database_format; a later call uses the object that    *)
(* was cached; converter_rules stays the in-order concatenation of the     *)
(* rule lists of the features that have one.                               *)
(***************************************************************************)
RulesOfFeatures ==
    LET RulesOf(feature) == IF get_converter_rule(feature).found
                            THEN get_converter_rule(feature).rule
                            ELSE <<>>
    IN Flatten(MapSeq(features, RulesOf))

C8_BuiltOnceAndCached ==
    /\ [](/\ whitelister_builds <= 1
          /\ html_rewriter_builds <= 1
          /\ whitelister_builds = Len(whitelister)
          /\ html_rewriter_builds = Len(html_rewriter)
          /\ converter_rules = RulesOfFeatures)
    /\ [][/\ whitelister # <<>> => whitelister' = whitelister
          /\ html_rewriter # <<>> => html_rewriter' = html_rewriter
          /\ whitelister' # whitelister =>
                /\ op' = "to_database_format"
                /\ whitelister' = <<DbTinymceWhitelister(converter_rules)>>
          /\ html_rewriter' # html_rewriter =>
                /\ op' = "from_database_format"
                /\ html_rewriter' = <<html_rewriter_new(converter_rules)>>
          /\ op' = "to_database_format" =>
                /\ whitelister' # <<>>
                /\ result' = <<clean(whitelister'[1], html')>>
          /\ op' = "from_database_format" =>
                /\ html_rewriter' # <<>>
                /\ result' = <<MultiRuleRewriter(html_rewriter'[1], html')>>
          /\ converter_rules' = converter_rules]_vars

C8_Witness ==
    /\ calls >= 3
    /\ whitelister_builds = 1
    /\ html_rewriter_builds = 1
    /\ converter_rules # <<>>

(***************************************************************************)
(* C9.  render_js_init puts the widget's configured locale into the        *)
(* payload's 'language': the language it was given (options over keyword), *)
(* else the default derived from the active translation; a missing locale  *)
(* and every region-qualified English locale become 'en', any other locale *)
(* arrives unchanged.                                                      *)
(***************************************************************************)
ConfiguredLocale ==
    IF given.options # <<>> THEN given.options[1]
    ELSE IF given.keyword # <<>> THEN given.keyword[1]
    ELSE getDefaultArgs(translation).options.language

C9_LocaleNormalised ==
    payload # <<>> =>
        payload[1].language
            = IF ConfiguredLocale = <<>> \/ ConfiguredLocale[1] = "en"
              THEN <<"en">>
              ELSE ConfiguredLocale

====
